---- MODULE Spec2Model ----
(***************************************************************************)
(* CSA V2.2 game-record rendering (src/value.rs).                          *)
(*                                                                         *)
(* Every type of the data model implements fmt::Display; to_string() of a  *)
(* value is the concatenation of the pieces its fmt writes.  A text is a   *)
(* sequence of characters (one-character strings), so that padding, line   *)
(* terminators and token boundaries are visible to the checks.             *)
(***************************************************************************)
EXTENDS Integers, Sequences, FiniteSets, TLC

VARIABLES kind, input, output, done

vars == <<kind, input, output, done>>

(***************************************************************************)
(* Bounds of the enumerated inputs.                                        *)
(***************************************************************************)
MaxCoord == 10

(* Board = [[Option<(Color, PieceType)>; 9]; 9] *)
BoardSize == 9

None == [tag |-> "None"]
Some(x) == [tag |-> "Some", val |-> x]
IsSome(o) == o.tag = "Some"

(***************************************************************************)
(* core::fmt for unsigned and signed integers: "{}" and "{:02}".           *)
(***************************************************************************)
NL == "\n"

DigitChar(d) ==
  CASE d = 0 -> "0" [] d = 1 -> "1" [] d = 2 -> "2" [] d = 3 -> "3"
    [] d = 4 -> "4" [] d = 5 -> "5" [] d = 6 -> "6" [] d = 7 -> "7"
    [] d = 8 -> "8" [] d = 9 -> "9"

RECURSIVE FmtUnsigned(_)
FmtUnsigned(n) ==
  IF n < 10 THEN <<DigitChar(n)>>
  ELSE FmtUnsigned(n \div 10) \o <<DigitChar(n % 10)>>

(* "{}" of an integer: a minus sign, then the magnitude in decimal *)
FmtDisplay(n) == IF n < 0 THEN <<"-">> \o FmtUnsigned(0 - n) ELSE FmtUnsigned(n)

RECURSIVE Zeros(_)
Zeros(k) == IF k <= 0 THEN <<>> ELSE <<"0">> \o Zeros(k - 1)

(* "{:02}" of an unsigned integer: zero fill up to a minimum width of 2 *)
FmtPad2(n) == Zeros(2 - Len(FmtUnsigned(n))) \o FmtUnsigned(n)

(***************************************************************************)
(* Color                                                                   *)
(***************************************************************************)
Colors == {"Black", "White"}

DisplayColor(c) ==
  CASE c = "Black" -> <<"+">>
    [] c = "White" -> <<"-">>

(***************************************************************************)
(* Square                                                                  *)
(***************************************************************************)
Square(file, rank) == [file |-> file, rank |-> rank]

Squares == {Square(f, r) : f \in 0..MaxCoord, r \in 0..MaxCoord}

DisplaySquare(sq) == FmtDisplay(sq.file) \o FmtDisplay(sq.rank)

(***************************************************************************)
(* PieceType                                                               *)
(***************************************************************************)
PieceTypeList ==
  <<"Pawn", "Lance", "Knight", "Silver", "Gold", "Bishop", "Rook", "King",
    "ProPawn", "ProLance", "ProKnight", "ProSilver", "Horse", "Dragon", "All">>

PieceTypes == {PieceTypeList[i] : i \in 1..Len(PieceTypeList)}

(* slip: the codes of the promoted lance and the promoted knight exchanged *)
DisplayPieceTypeSwapped(pt) ==
  CASE pt = "Pawn" -> <<"F", "U">>
    [] pt = "Lance" -> <<"K", "Y">>
    [] pt = "Knight" -> <<"K", "E">>
    [] pt = "Silver" -> <<"G", "I">>
    [] pt = "Gold" -> <<"K", "I">>
    [] pt = "Bishop" -> <<"K", "A">>
    [] pt = "Rook" -> <<"H", "I">>
    [] pt = "King" -> <<"O", "U">>
    [] pt = "ProPawn" -> <<"T", "O">>
    [] pt = "ProLance" -> <<"N", "K">>
    [] pt = "ProKnight" -> <<"N", "Y">>
    [] pt = "ProSilver" -> <<"N", "G">>
    [] pt = "Horse" -> <<"U", "M">>
    [] pt = "Dragon" -> <<"R", "Y">>
    [] pt = "All" -> <<"A", "L">>

DisplayPieceType(pt) ==
  CASE pt = "Pawn" -> <<"F", "U">>
    [] pt = "Lance" -> <<"K", "Y">>
    [] pt = "Knight" -> <<"K", "E">>
    [] pt = "Silver" -> <<"G", "I">>
    [] pt = "Gold" -> <<"K", "I">>
    [] pt = "Bishop" -> <<"K", "A">>
    [] pt = "Rook" -> <<"H", "I">>
    [] pt = "King" -> <<"O", "U">>
    [] pt = "ProPawn" -> <<"T", "O">>
    [] pt = "ProLance" -> <<"N", "Y">>
    [] pt = "ProKnight" -> <<"N", "K">>
    [] pt = "ProSilver" -> <<"N", "G">>
    [] pt = "Horse" -> <<"U", "M">>
    [] pt = "Dragon" -> <<"R", "Y">>
    [] pt = "All" -> <<"A", "L">>

(***************************************************************************)
(* Action                                                                  *)
(***************************************************************************)
PlainActionTags ==
  {"Toryo", "Chudan", "Sennichite", "TimeUp", "IllegalMove", "Jishogi",
   "Kachi", "Hikiwake", "Matta", "Tsumi", "Fuzumi", "Error"}

Move(c, from, to, pt) ==
  [tag |-> "Move", color |-> c, from |-> from, to |-> to, pt |-> pt]
IllegalAction(c) == [tag |-> "IllegalAction", color |-> c]
Plain(t) == [tag |-> t]

PlainActions == {Plain(t) : t \in PlainActionTags}
IllegalActions == {IllegalAction(c) : c \in Colors}

(* the twelve payload-free variants: a fixed literal each *)
ActionLiteral(tag) ==
  CASE tag = "Toryo" -> <<"%", "T", "O", "R", "Y", "O">>
    [] tag = "Chudan" -> <<"%", "C", "H", "U", "D", "A", "N">>
    [] tag = "Sennichite" ->
         <<"%", "S", "E", "N", "N", "I", "C", "H", "I", "T", "E">>
    [] tag = "TimeUp" -> <<"%", "T", "I", "M", "E", "_", "U", "P">>
    [] tag = "IllegalMove" ->
         <<"%", "I", "L", "L", "E", "G", "A", "L", "_", "M", "O", "V", "E">>
    [] tag = "Jishogi" -> <<"%", "J", "I", "S", "H", "O", "G", "I">>
    [] tag = "Kachi" -> <<"%", "K", "A", "C", "H", "I">>
    [] tag = "Hikiwake" -> <<"%", "H", "I", "K", "I", "W", "A", "K", "E">>
    [] tag = "Matta" -> <<"%", "M", "A", "T", "T", "A">>
    [] tag = "Tsumi" -> <<"%", "T", "S", "U", "M", "I">>
    [] tag = "Fuzumi" -> <<"%", "F", "U", "Z", "U", "M", "I">>
    [] tag = "Error" -> <<"%", "E", "R", "R", "O", "R">>

IllegalActionSuffix ==
  <<"I", "L", "L", "E", "G", "A", "L", "_", "A", "C", "T", "I", "O", "N">>

(* slip: the destination square written before the origin square *)
DisplayActionToFrom(a) ==
  CASE a.tag = "Move" ->
         DisplayColor(a.color) \o DisplaySquare(a.to) \o DisplaySquare(a.from)
           \o DisplayPieceType(a.pt)
    [] a.tag = "IllegalAction" ->
         <<"%">> \o DisplayColor(a.color) \o IllegalActionSuffix
    [] OTHER -> ActionLiteral(a.tag)

(* slip: the color of an illegal action left out of its token *)
DisplayActionNoColor(a) ==
  CASE a.tag = "Move" ->
         DisplayColor(a.color) \o DisplaySquare(a.from) \o DisplaySquare(a.to)
           \o DisplayPieceType(a.pt)
    [] a.tag = "IllegalAction" -> <<"%">> \o IllegalActionSuffix
    [] OTHER -> ActionLiteral(a.tag)

DisplayAction(a) ==
  CASE a.tag = "Move" ->
         DisplayColor(a.color) \o DisplaySquare(a.from) \o DisplaySquare(a.to)
           \o DisplayPieceType(a.pt)
    [] a.tag = "IllegalAction" ->
         <<"%">> \o DisplayColor(a.color) \o IllegalActionSuffix
    [] OTHER -> ActionLiteral(a.tag)

(***************************************************************************)
(* to_string() of the token types: Color, Square, PieceType.               *)
(***************************************************************************)
Init ==
  /\ \/ kind = "Color" /\ input \in Colors
     \/ kind = "Square" /\ input \in Squares
     \/ kind = "PieceType" /\ input \in PieceTypes
  /\ output = <<>>
  /\ done = FALSE

ColorToString ==
  /\ kind = "Color" /\ ~done
  /\ output' = DisplayColor(input)
  /\ done' = TRUE
  /\ UNCHANGED <<kind, input>>

SquareToString ==
  /\ kind = "Square" /\ ~done
  /\ output' = DisplaySquare(input)
  /\ done' = TRUE
  /\ UNCHANGED <<kind, input>>

PieceTypeToString ==
  /\ kind = "PieceType" /\ ~done
  /\ output' = DisplayPieceType(input)
  /\ done' = TRUE
  /\ UNCHANGED <<kind, input>>

Next == ColorToString \/ SquareToString \/ PieceTypeToString

Spec == Init /\ [][Next]_vars

(***************************************************************************)
(* to_string() of an Action.                                               *)
(***************************************************************************)
InitAction ==
  /\ kind = "Action"
  /\ \/ \E c \in Colors, from \in Squares, to \in Squares, pt \in PieceTypes :
          input = Move(c, from, to, pt)
     \/ input \in PlainActions \cup IllegalActions
  /\ output = <<>>
  /\ done = FALSE

ActionToString ==
  /\ kind = "Action" /\ ~done
  /\ output' = DisplayAction(input)
  /\ done' = TRUE
  /\ UNCHANGED <<kind, input>>

NextAction == ActionToString

SpecAction == InitAction /\ [][NextAction]_vars

(***************************************************************************)
(* Duration: whole seconds and a sub-second part; as_secs() drops the      *)
(* sub-second part.                                                        *)
(***************************************************************************)
MaxMainSteps == 400
MaxByoSteps == 12
MaxElapsed == 12

Duration(secs, nanos) == [secs |-> secs, nanos |-> nanos]
SubsecNanos == {0, 999999999}

AsSecs(d) == d.secs

(***************************************************************************)
(* Time                                                                    *)
(***************************************************************************)
Years == {7, 2003}
Months == {1, 9, 10, 12}
Days == {1, 9, 10, 28}
Hours == {0, 9, 10, 23}
Minutes == {0, 9, 10, 59}
Seconds == {0, 5, 10, 59}

NativeDates == [year : Years, month : Months, day : Days]
NativeTimes == [hour : Hours, minute : Minutes, second : Seconds]

Times ==
  {[date |-> d, time |-> None] : d \in NativeDates}
    \cup {[date |-> d, time |-> Some(t)] : d \in NativeDates, t \in NativeTimes}

DisplayTime(t) ==
  FmtDisplay(t.date.year) \o <<"/">> \o FmtPad2(t.date.month) \o <<"/">>
    \o FmtPad2(t.date.day)
    \o (IF IsSome(t.time)
          THEN <<" ">> \o FmtDisplay(t.time.val.hour) \o <<":">>
                 \o FmtPad2(t.time.val.minute) \o <<":">>
                 \o FmtPad2(t.time.val.second)
          ELSE <<>>)

InitTime ==
  /\ kind = "Time"
  /\ input \in Times
  /\ output = <<>>
  /\ done = FALSE

TimeToString ==
  /\ kind = "Time" /\ ~done
  /\ output' = DisplayTime(input)
  /\ done' = TRUE
  /\ UNCHANGED <<kind, input>>

NextTime == TimeToString

SpecTime == InitTime /\ [][NextTime]_vars

(***************************************************************************)
(* TimeLimit                                                               *)
(***************************************************************************)
MainTimes ==
  {Duration(1009 * k, n) : k \in 0..MaxMainSteps, n \in SubsecNanos}
    \cup {Duration(1500, 0)}
Byoyomis == {Duration(9 * k, n) : k \in 0..MaxByoSteps, n \in SubsecNanos}

TimeLimits == [main_time : MainTimes, byoyomi : Byoyomis]

(* slip: the minutes taken from the whole duration, not from the remainder *)
DisplayTimeLimitTotalMinutes(tl) ==
  LET secs == AsSecs(tl.main_time)
      hours == secs \div 3600
      minutes == secs \div 60
  IN  FmtPad2(hours) \o <<":">> \o FmtPad2(minutes) \o <<"+">>
        \o FmtPad2(AsSecs(tl.byoyomi))

DisplayTimeLimit(tl) ==
  LET secs == AsSecs(tl.main_time)
      hours == secs \div 3600
      minutes == (secs % 3600) \div 60
  IN  FmtPad2(hours) \o <<":">> \o FmtPad2(minutes) \o <<"+">>
        \o FmtPad2(AsSecs(tl.byoyomi))

InitTimeLimit ==
  /\ kind = "TimeLimit"
  /\ input \in TimeLimits
  /\ output = <<>>
  /\ done = FALSE

TimeLimitToString ==
  /\ kind = "TimeLimit" /\ ~done
  /\ output' = DisplayTimeLimit(input)
  /\ done' = TRUE
  /\ UNCHANGED <<kind, input>>

NextTimeLimit == TimeLimitToString

SpecTimeLimit == InitTimeLimit /\ [][NextTimeLimit]_vars

(***************************************************************************)
(* MoveRecord                                                              *)
(***************************************************************************)
MaxRecordCoord == 2

RecordSquares ==
  {Square(f, r) : f \in 1..MaxRecordCoord, r \in 1..MaxRecordCoord}
RecordActions ==
  {Move(c, from, to, pt) : c \in Colors, from \in RecordSquares,
                           to \in RecordSquares, pt \in PieceTypes}
    \cup PlainActions \cup IllegalActions
ElapsedTimes == {Duration(s, n) : s \in 0..MaxElapsed, n \in SubsecNanos}

MoveRecords ==
  {[action |-> a, time |-> None] : a \in RecordActions}
    \cup {[action |-> a, time |-> Some(d)] :
            a \in RecordActions, d \in ElapsedTimes}

(* slip: a time line written for every record, zero when none is recorded *)
DisplayMoveRecordAlwaysTime(r) ==
  DisplayAction(r.action) \o <<NL>>
    \o <<"T">>
    \o FmtDisplay(IF IsSome(r.time) THEN AsSecs(r.time.val) ELSE 0) \o <<NL>>

DisplayMoveRecord(r) ==
  DisplayAction(r.action) \o <<NL>>
    \o (IF IsSome(r.time)
          THEN <<"T">> \o FmtDisplay(AsSecs(r.time.val)) \o <<NL>>
          ELSE <<>>)

InitMoveRecord ==
  /\ kind = "MoveRecord"
  /\ input \in MoveRecords
  /\ output = <<>>
  /\ done = FALSE

MoveRecordToString ==
  /\ kind = "MoveRecord" /\ ~done
  /\ output' = DisplayMoveRecord(input)
  /\ done' = TRUE
  /\ UNCHANGED <<kind, input>>

NextMoveRecord == MoveRecordToString

SpecMoveRecord == InitMoveRecord /\ [][NextMoveRecord]_vars

(***************************************************************************)
(* Position                                                                *)
(***************************************************************************)
MaxDrops == 2
MaxAdds == 1
MaxMoves == 2

SeqsUpTo(S, n) == UNION {[1..k -> S] : k \in 0..n}

Piece(c, pt) == Some(<<c, pt>>)
EmptyRow == [j \in 1..BoardSize |-> None]
EmptyBoard == [i \in 1..BoardSize |-> EmptyRow]

BackRank(c) ==
  <<Piece(c, "Lance"), Piece(c, "Knight"), Piece(c, "Silver"),
    Piece(c, "Gold"), Piece(c, "King"), Piece(c, "Gold"),
    Piece(c, "Silver"), Piece(c, "Knight"), Piece(c, "Lance")>>
PawnRow(c) == [j \in 1..BoardSize |-> Piece(c, "Pawn")]
HirateBoard ==
  <<BackRank("White"),
    [EmptyRow EXCEPT ![2] = Piece("White", "Rook"),
                     ![8] = Piece("White", "Bishop")],
    PawnRow("White"), EmptyRow, EmptyRow, EmptyRow, PawnRow("Black"),
    [EmptyRow EXCEPT ![2] = Piece("Black", "Bishop"),
                     ![8] = Piece("Black", "Rook")],
    BackRank("Black")>>
PromotedBoard ==
  [EmptyBoard EXCEPT ![1][1] = Piece("Black", "Dragon"),
                     ![5][5] = Piece("White", "Horse"),
                     ![9][9] = Piece("Black", "ProPawn")]

Boards == {EmptyBoard, HirateBoard, PromotedBoard}

DropPieceSamples ==
  {<<Square(1, 1), "Lance">>, <<Square(5, 9), "King">>,
   <<Square(8, 2), "Rook">>, <<Square(0, 0), "All">>}
AddPieceSamples ==
  {<<"Black", Square(5, 5), "Dragon">>, <<"White", Square(1, 9), "Pawn">>,
   <<"Black", Square(0, 0), "All">>, <<"White", Square(0, 0), "All">>}

Positions ==
  [drop_pieces : SeqsUpTo(DropPieceSamples, MaxDrops),
   bulk : {None} \cup {Some(b) : b \in Boards},
   add_pieces : SeqsUpTo(AddPieceSamples, MaxAdds),
   side_to_move : Colors]

(* Position::default() *)
DefaultPosition ==
  [drop_pieces |-> <<>>, bulk |-> None, add_pieces |-> <<>>,
   side_to_move |-> "Black"]

DisplayCell(pc) ==
  IF IsSome(pc) THEN DisplayColor(pc.val[1]) \o DisplayPieceType(pc.val[2])
  ELSE <<" ", "*", " ">>

RECURSIVE DisplayCells(_, _)
DisplayCells(row, j) ==
  IF j > Len(row) THEN <<>>
  ELSE DisplayCell(row[j]) \o DisplayCells(row, j + 1)

(* i is the index of enumerate(), counted from 0 *)
RECURSIVE DisplayBulk(_, _)
DisplayBulk(bulk, i) ==
  IF i >= Len(bulk) THEN <<>>
  ELSE <<"P">> \o FmtDisplay(i + 1) \o DisplayCells(bulk[i + 1], 1) \o <<NL>>
         \o DisplayBulk(bulk, i + 1)

RECURSIVE DisplayDropPieces(_, _)
DisplayDropPieces(drops, k) ==
  IF k > Len(drops) THEN <<>>
  ELSE DisplaySquare(drops[k][1]) \o DisplayPieceType(drops[k][2])
         \o DisplayDropPieces(drops, k + 1)

RECURSIVE DisplayAddPieces(_, _)
DisplayAddPieces(adds, k) ==
  IF k > Len(adds) THEN <<>>
  ELSE <<"P">> \o DisplayColor(adds[k][1]) \o DisplaySquare(adds[k][2])
         \o DisplayPieceType(adds[k][3]) \o <<NL>>
         \o DisplayAddPieces(adds, k + 1)

(* slip: the side to move written before the added pieces *)
DisplayPositionSideFirst(p) ==
  (IF IsSome(p.bulk) THEN DisplayBulk(p.bulk.val, 0)
   ELSE <<"P", "I">> \o DisplayDropPieces(p.drop_pieces, 1) \o <<NL>>)
    \o DisplayColor(p.side_to_move) \o <<NL>>
    \o DisplayAddPieces(p.add_pieces, 1)

(* slip: the drop list written even though the grid is present *)
DisplayPositionBothLayouts(p) ==
  (IF IsSome(p.bulk) THEN DisplayBulk(p.bulk.val, 0) ELSE <<>>)
    \o (IF IsSome(p.bulk) /\ p.drop_pieces = <<>> THEN <<>>
        ELSE <<"P", "I">> \o DisplayDropPieces(p.drop_pieces, 1) \o <<NL>>)
    \o DisplayAddPieces(p.add_pieces, 1)
    \o DisplayColor(p.side_to_move) \o <<NL>>

DisplayPosition(p) ==
  (IF IsSome(p.bulk) THEN DisplayBulk(p.bulk.val, 0)
   ELSE <<"P", "I">> \o DisplayDropPieces(p.drop_pieces, 1) \o <<NL>>)
    \o DisplayAddPieces(p.add_pieces, 1)
    \o DisplayColor(p.side_to_move) \o <<NL>>

InitPosition ==
  /\ kind = "Position"
  /\ input \in Positions
  /\ output = <<>>
  /\ done = FALSE

PositionToString ==
  /\ kind = "Position" /\ ~done
  /\ output' = DisplayPosition(input)
  /\ done' = TRUE
  /\ UNCHANGED <<kind, input>>

NextPosition == PositionToString

SpecPosition == InitPosition /\ [][NextPosition]_vars

(***************************************************************************)
(* GameRecord                                                              *)
(***************************************************************************)
Nakahara == <<"N", "A", "K", "A", "H", "A", "R", "A">>
Yonenaga == <<"Y", "O", "N", "E", "N", "A", "G", "A">>
EventName ==
  <<"1", "3", "t", "h", " ", "W", "o", "r", "l", "d", " ", "C", "o",
    "m", "p", "u", "t", "e", "r", " ", "S", "h", "o", "g", "i", " ", "C",
    "h", "a", "m", "p", "i", "o", "n", "s", "h", "i", "p">>
TwoLineName == <<"A", NL, "B">>
SiteName == <<"K", "A", "Z", "U", "S", "A", " ", "A", "R", "C">>
OpeningName == <<"Y", "A", "G", "U", "R", "A">>

StartTimeSample ==
  [date |-> [year |-> 2003, month |-> 5, day |-> 3],
   time |-> Some([hour |-> 10, minute |-> 30, second |-> 0])]
EndTimeSample ==
  [date |-> [year |-> 2003, month |-> 5, day |-> 3],
   time |-> Some([hour |-> 11, minute |-> 11, second |-> 5])]
TimeLimitSample ==
  [main_time |-> Duration(1500, 0), byoyomi |-> Duration(0, 0)]

GamePositions ==
  {DefaultPosition,
   [drop_pieces |-> << <<Square(8, 2), "Rook">> >>, bulk |-> None,
    add_pieces |-> << <<"Black", Square(5, 5), "Dragon">> >>,
    side_to_move |-> "White"],
   [drop_pieces |-> << <<Square(1, 1), "Lance">> >>,
    bulk |-> Some(HirateBoard),
    add_pieces |-> << <<"White", Square(1, 9), "Pawn">> >>,
    side_to_move |-> "Black"]}

GameMoves ==
  {[action |-> Move("Black", Square(8, 7), Square(8, 6), "Pawn"),
    time |-> Some(Duration(5, 0))],
   [action |-> IllegalAction("White"), time |-> Some(Duration(0, 500000000))],
   [action |-> Plain("Toryo"), time |-> None]}

GameRecords ==
  [black_player : {None, Some(Nakahara)},
   white_player : {None, Some(Yonenaga)},
   event : {None, Some(EventName), Some(TwoLineName)},
   site : {None, Some(SiteName), Some(<<>>)},
   start_time : {None, Some(StartTimeSample)},
   end_time : {None, Some(EndTimeSample)},
   time_limit : {None, Some(TimeLimitSample)},
   opening : {None, Some(OpeningName)},
   start_pos : GamePositions,
   moves : SeqsUpTo(GameMoves, MaxMoves)]

(* String::to_string(): the string itself *)
StringToString(str) == str

(* slip: the end time listed before the start time *)
MetadataEndFirst(g) ==
  << <<<<"N", "+">>,
       IF IsSome(g.black_player)
         THEN Some(StringToString(g.black_player.val)) ELSE None>>,
     <<<<"N", "-">>,
       IF IsSome(g.white_player)
         THEN Some(StringToString(g.white_player.val)) ELSE None>>,
     <<<<"$", "E", "V", "E", "N", "T", ":">>,
       IF IsSome(g.event) THEN Some(StringToString(g.event.val)) ELSE None>>,
     <<<<"$", "S", "I", "T", "E", ":">>,
       IF IsSome(g.site) THEN Some(StringToString(g.site.val)) ELSE None>>,
     <<<<"$", "E", "N", "D", "_", "T", "I", "M", "E", ":">>,
       IF IsSome(g.end_time) THEN Some(DisplayTime(g.end_time.val)) ELSE None>>,
     <<<<"$", "S", "T", "A", "R", "T", "_", "T", "I", "M", "E", ":">>,
       IF IsSome(g.start_time)
         THEN Some(DisplayTime(g.start_time.val)) ELSE None>>,
     <<<<"$", "T", "I", "M", "E", "_", "L", "I", "M", "I", "T", ":">>,
       IF IsSome(g.time_limit)
         THEN Some(DisplayTimeLimit(g.time_limit.val)) ELSE None>>,
     <<<<"$", "O", "P", "E", "N", "I", "N", "G", ":">>,
       IF IsSome(g.opening)
         THEN Some(StringToString(g.opening.val)) ELSE None>> >>

(* the array of (key, value) pairs, each value mapped to its string *)
Metadata(g) ==
  << <<<<"N", "+">>,
       IF IsSome(g.black_player)
         THEN Some(StringToString(g.black_player.val)) ELSE None>>,
     <<<<"N", "-">>,
       IF IsSome(g.white_player)
         THEN Some(StringToString(g.white_player.val)) ELSE None>>,
     <<<<"$", "E", "V", "E", "N", "T", ":">>,
       IF IsSome(g.event) THEN Some(StringToString(g.event.val)) ELSE None>>,
     <<<<"$", "S", "I", "T", "E", ":">>,
       IF IsSome(g.site) THEN Some(StringToString(g.site.val)) ELSE None>>,
     <<<<"$", "S", "T", "A", "R", "T", "_", "T", "I", "M", "E", ":">>,
       IF IsSome(g.start_time)
         THEN Some(DisplayTime(g.start_time.val)) ELSE None>>,
     <<<<"$", "E", "N", "D", "_", "T", "I", "M", "E", ":">>,
       IF IsSome(g.end_time) THEN Some(DisplayTime(g.end_time.val)) ELSE None>>,
     <<<<"$", "T", "I", "M", "E", "_", "L", "I", "M", "I", "T", ":">>,
       IF IsSome(g.time_limit)
         THEN Some(DisplayTimeLimit(g.time_limit.val)) ELSE None>>,
     <<<<"$", "O", "P", "E", "N", "I", "N", "G", ":">>,
       IF IsSome(g.opening)
         THEN Some(StringToString(g.opening.val)) ELSE None>> >>

(* slip: an absent value still ends a line *)
WriteMetadataEntryBlank(entry) ==
  IF IsSome(entry[2]) THEN entry[1] \o entry[2].val \o <<NL>> ELSE <<NL>>

(* one turn of the loop over the metadata array *)
WriteMetadataEntry(entry) ==
  IF IsSome(entry[2]) THEN entry[1] \o entry[2].val \o <<NL>> ELSE <<>>

RECURSIVE WriteMetadata(_, _)
WriteMetadata(metadata, k) ==
  IF k > Len(metadata) THEN <<>>
  ELSE WriteMetadataEntry(metadata[k]) \o WriteMetadata(metadata, k + 1)

RECURSIVE WriteMoves(_, _)
WriteMoves(moves, k) ==
  IF k > Len(moves) THEN <<>>
  ELSE DisplayMoveRecord(moves[k]) \o WriteMoves(moves, k + 1)

DisplayGameRecord(g) ==
  <<"V", "2", ".", "2", NL>>
    \o WriteMetadata(Metadata(g), 1)
    \o DisplayPosition(g.start_pos)
    \o WriteMoves(g.moves, 1)

InitGameRecord ==
  /\ kind = "GameRecord"
  /\ input \in GameRecords
  /\ output = <<>>
  /\ done = FALSE

GameRecordToString ==
  /\ kind = "GameRecord" /\ ~done
  /\ output' = DisplayGameRecord(input)
  /\ done' = TRUE
  /\ UNCHANGED <<kind, input>>

NextGameRecord == GameRecordToString

SpecGameRecord == InitGameRecord /\ [][NextGameRecord]_vars

(***************************************************************************)
(* Reference tables of the CSA tokens, as the documentation lists them.    *)
(***************************************************************************)
PieceCodeTable ==
  {<<"Pawn", "F", "U">>, <<"Lance", "K", "Y">>, <<"Knight", "K", "E">>,
   <<"Silver", "G", "I">>, <<"Gold", "K", "I">>, <<"Bishop", "K", "A">>,
   <<"Rook", "H", "I">>, <<"King", "O", "U">>, <<"ProPawn", "T", "O">>,
   <<"ProLance", "N", "Y">>, <<"ProKnight", "N", "K">>,
   <<"ProSilver", "N", "G">>, <<"Horse", "U", "M">>, <<"Dragon", "R", "Y">>,
   <<"All", "A", "L">>}

PieceCode(pt) ==
  LET row == CHOOSE r \in PieceCodeTable : r[1] = pt IN <<row[2], row[3]>>

ColorToken(c) == IF c = "Black" THEN <<"+">> ELSE <<"-">>

Digits == <<"0", "1", "2", "3", "4", "5", "6", "7", "8", "9">>

(* decimal numeral of a natural number below 10^6, most significant first *)
Numeral(n) ==
  LET d(k) == Digits[((n \div k) % 10) + 1]
  IN  IF n < 10 THEN <<d(1)>>
      ELSE IF n < 100 THEN <<d(10), d(1)>>
      ELSE IF n < 1000 THEN <<d(100), d(10), d(1)>>
      ELSE IF n < 10000 THEN <<d(1000), d(100), d(10), d(1)>>
      ELSE IF n < 100000 THEN <<d(10000), d(1000), d(100), d(10), d(1)>>
      ELSE <<d(100000), d(10000), d(1000), d(100), d(10), d(1)>>

(* a numeral of at least two digits: a leading zero below 10, else as is *)
Numeral2(n) == IF n < 10 THEN <<"0">> \o Numeral(n) ELSE Numeral(n)

SquareToken(sq) == Numeral(sq.file) \o Numeral(sq.rank)

PlainWordTable ==
  {<<"Toryo", <<"T", "O", "R", "Y", "O">> >>,
   <<"Chudan", <<"C", "H", "U", "D", "A", "N">> >>,
   <<"Sennichite", <<"S", "E", "N", "N", "I", "C", "H", "I", "T", "E">> >>,
   <<"TimeUp", <<"T", "I", "M", "E", "_", "U", "P">> >>,
   <<"IllegalMove",
     <<"I", "L", "L", "E", "G", "A", "L", "_", "M", "O", "V", "E">> >>,
   <<"Jishogi", <<"J", "I", "S", "H", "O", "G", "I">> >>,
   <<"Kachi", <<"K", "A", "C", "H", "I">> >>,
   <<"Hikiwake", <<"H", "I", "K", "I", "W", "A", "K", "E">> >>,
   <<"Matta", <<"M", "A", "T", "T", "A">> >>,
   <<"Tsumi", <<"T", "S", "U", "M", "I">> >>,
   <<"Fuzumi", <<"F", "U", "Z", "U", "M", "I">> >>,
   <<"Error", <<"E", "R", "R", "O", "R">> >>}

ActionToken(a) ==
  IF a.tag = "Move"
    THEN ColorToken(a.color) \o SquareToken(a.from) \o SquareToken(a.to)
           \o PieceCode(a.pt)
  ELSE IF a.tag = "IllegalAction"
    THEN <<"%">> \o ColorToken(a.color)
           \o <<"I", "L", "L", "E", "G", "A", "L", "_",
                "A", "C", "T", "I", "O", "N">>
  ELSE <<"%">> \o (CHOOSE r \in PlainWordTable : r[1] = a.tag)[2]

(***************************************************************************)
(* C3: every one of the 15 PieceType variants renders as exactly its       *)
(* documented two-letter code (Pawn FU, Lance KY, ... Dragon RY, All AL).  *)
(***************************************************************************)
C3_PieceTypeCode ==
  (kind = "PieceType" /\ done) =>
    /\ Cardinality(PieceTypes) = 15
    /\ \E row \in PieceCodeTable :
         row[1] = input /\ output = <<row[2], row[3]>>

C3_Witness ==
  kind = "PieceType" /\ done /\ input = "ProLance" /\ output = <<"N", "Y">>

(***************************************************************************)
(* C2: every Action renders as exactly its documented token: a Move as     *)
(* color token, from-square, to-square and piece code with no separators;  *)
(* the 12 payload-free variants as '%' and their word; IllegalAction as    *)
(* '%', the color token and ILLEGAL_ACTION.                                *)
(***************************************************************************)
C2_ActionToken ==
  (kind = "Action" /\ done) =>
    /\ output = ActionToken(input)
    /\ Cardinality(PlainActionTags) = 12

C2_Witness ==
  /\ kind = "Action" /\ done
  /\ input = Move("Black", Square(7, 7), Square(7, 6), "Pawn")
  /\ output = <<"+", "7", "7", "7", "6", "F", "U">>

(***************************************************************************)
(* C9: Action rendering is injective over the actions whose squares have   *)
(* file and rank in 1..9: equal tokens imply equal actions.  A rendered    *)
(* token is the token of no other non-move action, and a move is recovered *)
(* from its token character by character, so no two moves share a token.   *)
(***************************************************************************)
WellFormedSquare(sq) == sq.file \in 1..BoardSize /\ sq.rank \in 1..BoardSize

WellFormedAction(a) ==
  a.tag = "Move" => WellFormedSquare(a.from) /\ WellFormedSquare(a.to)

DecodeMove(text) ==
  IF Len(text) # 7 THEN None
  ELSE LET val(ch) == IF \E d \in 0..9 : DigitChar(d) = ch
                        THEN CHOOSE d \in 0..9 : DigitChar(d) = ch
                        ELSE 0 - 1
           c == IF \E x \in Colors : DisplayColor(x) = <<text[1]>>
                  THEN CHOOSE x \in Colors : DisplayColor(x) = <<text[1]>>
                  ELSE "?"
           p == IF \E x \in PieceTypes :
                       DisplayPieceType(x) = <<text[6], text[7]>>
                  THEN CHOOSE x \in PieceTypes :
                         DisplayPieceType(x) = <<text[6], text[7]>>
                  ELSE "?"
       IN  Move(c, Square(val(text[2]), val(text[3])),
                Square(val(text[4]), val(text[5])), p)

C9_ActionInjective ==
  (kind = "Action" /\ done /\ WellFormedAction(input)) =>
    /\ \A b \in PlainActions \cup IllegalActions :
         DisplayAction(b) = output => b = input
    /\ input.tag = "Move" => DecodeMove(output) = input

C9_Witness ==
  /\ kind = "Action" /\ done
  /\ input = Move("White", Square(1, 1), Square(9, 9), "Dragon")
  /\ DecodeMove(output) = input

(***************************************************************************)
(* Lines of a text: the segments ended by a newline, without the newline.  *)
(***************************************************************************)
NewlineAt(text) == {i \in 1..Len(text) : text[i] = NL}

(* position of the k-th newline of the text; 0 for k = 0 *)
NewlinePos(text, k) ==
  IF k = 0 THEN 0
  ELSE CHOOSE i \in NewlineAt(text) :
         Cardinality({j \in NewlineAt(text) : j <= i}) = k

Lines(text) ==
  [k \in 1..Cardinality(NewlineAt(text)) |->
     SubSeq(text, NewlinePos(text, k - 1) + 1, NewlinePos(text, k) - 1)]

(* every character of the text belongs to a line ended by a newline *)
Terminated(text) == text = <<>> \/ text[Len(text)] = NL

(***************************************************************************)
(* C4 (as claimed): the date is rendered year/month/day with the year      *)
(* unpadded and month and day zero-padded to 2 digits and, when a time of  *)
(* day is present, hour, minute and second are each zero-padded to 2       *)
(* digits.                                                                 *)
(***************************************************************************)
C4_AllFieldsPadded ==
  (kind = "Time" /\ done) =>
    output =
      Numeral(input.date.year) \o <<"/">> \o Numeral2(input.date.month)
        \o <<"/">> \o Numeral2(input.date.day)
        \o (IF IsSome(input.time)
              THEN <<" ">> \o Numeral2(input.time.val.hour) \o <<":">>
                     \o Numeral2(input.time.val.minute) \o <<":">>
                     \o Numeral2(input.time.val.second)
              ELSE <<>>)

(***************************************************************************)
(* C5: a TimeLimit renders as HH:MM+SS with HH the whole hours of          *)
(* main_time, MM the whole minutes of the rest and SS the whole seconds of *)
(* byoyomi, each zero-padded to at least 2 digits and never truncated; the *)
(* part of main_time below one minute has no effect on the output.         *)
(***************************************************************************)
C5_TimeLimitFormat ==
  (kind = "TimeLimit" /\ done) =>
    LET total == input.main_time.secs
        wholeMinutes == total \div 60
        rounded == [input EXCEPT !.main_time = Duration(60 * wholeMinutes, 0)]
    IN  /\ output =
             Numeral2(wholeMinutes \div 60) \o <<":">>
               \o Numeral2(wholeMinutes % 60) \o <<"+">>
               \o Numeral2(input.byoyomi.secs)
        /\ output = DisplayTimeLimit(rounded)
        /\ (total = 1500 /\ input.byoyomi.secs = 0) =>
             output = <<"0", "0", ":", "2", "5", "+", "0", "0">>

C5_Witness ==
  /\ kind = "TimeLimit" /\ done
  /\ input.main_time.secs >= 360000
  /\ input.main_time.secs % 60 # 0
  /\ input.byoyomi.secs >= 100
  /\ Len(output) = 10

(***************************************************************************)
(* C7: a MoveRecord renders as its Action token on one line, followed by a *)
(* line T<seconds> exactly when the elapsed time is present, <seconds>     *)
(* being the whole seconds in decimal with no padding and no suffix; with  *)
(* no time exactly one line is emitted.                                    *)
(***************************************************************************)
C7_MoveRecordLines ==
  (kind = "MoveRecord" /\ done) =>
    /\ Terminated(output)
    /\ Lines(output) =
         IF IsSome(input.time)
           THEN <<ActionToken(input.action),
                  <<"T">> \o Numeral(input.time.val.secs)>>
           ELSE <<ActionToken(input.action)>>

C7_Witness ==
  /\ kind = "MoveRecord" /\ done
  /\ input.action.tag = "Move"
  /\ IsSome(input.time) /\ input.time.val.secs = 5
  /\ input.time.val.nanos > 0
  /\ Len(Lines(output)) = 2
  /\ Lines(output)[2] = <<"T", "5">>

(***************************************************************************)
(* Concatenation of a sequence of texts, in order.                         *)
(***************************************************************************)
RECURSIVE Flatten(_)
Flatten(texts) ==
  IF texts = <<>> THEN <<>> ELSE Head(texts) \o Flatten(Tail(texts))

(***************************************************************************)
(* C1: a GameRecord renders as the line V2.2, then one line <key><value>   *)
(* for each present optional field and nothing for an absent one, in the   *)
(* order N+, N-, $EVENT:, $SITE:, $START_TIME:, $END_TIME:, $TIME_LIMIT:,  *)
(* $OPENING:, then the rendered Position, then the rendering of every      *)
(* MoveRecord in list order.  With all eight fields absent only V2.2, the  *)
(* position block and the move lines appear.                               *)
(***************************************************************************)
FieldLine(key, field, text) ==
  IF IsSome(field) THEN key \o text \o <<NL>> ELSE <<>>

StringField(field) == IF IsSome(field) THEN field.val ELSE <<>>
TimeField(field) == IF IsSome(field) THEN DisplayTime(field.val) ELSE <<>>
TimeLimitField(field) ==
  IF IsSome(field) THEN DisplayTimeLimit(field.val) ELSE <<>>

OptionalFields(g) ==
  <<g.black_player, g.white_player, g.event, g.site, g.start_time,
    g.end_time, g.time_limit, g.opening>>

MoveBlock(g) ==
  Flatten([k \in 1..Len(g.moves) |-> DisplayMoveRecord(g.moves[k])])

C1_GameRecordLayout ==
  (kind = "GameRecord" /\ done) =>
    /\ output =
         <<"V", "2", ".", "2", NL>>
           \o FieldLine(<<"N", "+">>, input.black_player,
                        StringField(input.black_player))
           \o FieldLine(<<"N", "-">>, input.white_player,
                        StringField(input.white_player))
           \o FieldLine(<<"$", "E", "V", "E", "N", "T", ":">>, input.event,
                        StringField(input.event))
           \o FieldLine(<<"$", "S", "I", "T", "E", ":">>, input.site,
                        StringField(input.site))
           \o FieldLine(<<"$", "S", "T", "A", "R", "T", "_",
                          "T", "I", "M", "E", ":">>,
                        input.start_time, TimeField(input.start_time))
           \o FieldLine(<<"$", "E", "N", "D", "_", "T", "I", "M", "E", ":">>,
                        input.end_time, TimeField(input.end_time))
           \o FieldLine(<<"$", "T", "I", "M", "E", "_",
                          "L", "I", "M", "I", "T", ":">>,
                        input.time_limit, TimeLimitField(input.time_limit))
           \o FieldLine(<<"$", "O", "P", "E", "N", "I", "N", "G", ":">>,
                        input.opening, StringField(input.opening))
           \o DisplayPosition(input.start_pos)
           \o MoveBlock(input)
    /\ (\A k \in 1..8 : ~IsSome(OptionalFields(input)[k])) =>
         output = <<"V", "2", ".", "2", NL>>
                    \o DisplayPosition(input.start_pos) \o MoveBlock(input)

(* the record and the text of tests::game_record *)
C1_Witness ==
  /\ kind = "GameRecord" /\ done
  /\ input =
       [black_player |-> Some(Nakahara), white_player |-> Some(Yonenaga),
        event |-> Some(EventName), site |-> Some(SiteName),
        start_time |-> Some(StartTimeSample),
        end_time |-> Some(EndTimeSample),
        time_limit |-> Some(TimeLimitSample), opening |-> Some(OpeningName),
        start_pos |-> DefaultPosition,
        moves |->
          <<[action |-> Move("Black", Square(8, 7), Square(8, 6), "Pawn"),
             time |-> Some(Duration(5, 0))],
            [action |-> Plain("Toryo"), time |-> None]>>]
  /\ output =
       <<"V", "2", ".", "2", NL>>
       \o <<"N", "+", "N", "A", "K", "A", "H", "A", "R", "A", NL>>
       \o <<"N", "-", "Y", "O", "N", "E", "N", "A", "G", "A", NL>>
       \o <<"$", "E", "V", "E", "N", "T", ":", "1", "3", "t", "h", " ", "W", "o", "r", "l", "d", " ", "C", "o", "m", "p", "u", "t", "e", "r", " ", "S", "h", "o", "g", "i", " ", "C", "h", "a", "m", "p", "i", "o", "n", "s", "h", "i", "p", NL>>
       \o <<"$", "S", "I", "T", "E", ":", "K", "A", "Z", "U", "S", "A", " ", "A", "R", "C", NL>>
       \o <<"$", "S", "T", "A", "R", "T", "_", "T", "I", "M", "E", ":", "2", "0", "0", "3", "/", "0", "5", "/", "0", "3", " ", "1", "0", ":", "3", "0", ":", "0", "0", NL>>
       \o <<"$", "E", "N", "D", "_", "T", "I", "M", "E", ":", "2", "0", "0", "3", "/", "0", "5", "/", "0", "3", " ", "1", "1", ":", "1", "1", ":", "0", "5", NL>>
       \o <<"$", "T", "I", "M", "E", "_", "L", "I", "M", "I", "T", ":", "0", "0", ":", "2", "5", "+", "0", "0", NL>>
       \o <<"$", "O", "P", "E", "N", "I", "N", "G", ":", "Y", "A", "G", "U", "R", "A", NL>>
       \o <<"P", "I", NL>>
       \o <<"+", NL>>
       \o <<"+", "8", "7", "8", "6", "F", "U", NL>>
       \o <<"T", "5", NL>>
       \o <<"%", "T", "O", "R", "Y", "O", NL>>

(***************************************************************************)
(* C10: for a GameRecord whose string fields hold no newline, the text     *)
(* begins with V2.2 and a newline, ends with a newline, has no empty line, *)
(* and has 1 + (present optional fields) + (9 if bulk is present, else 1)  *)
(* + |add_pieces| + 1 + |moves| + (moves with a time) lines.               *)
(***************************************************************************)
HasNewline(text) == \E i \in 1..Len(text) : text[i] = NL

StringFieldsPlain(g) ==
  \A f \in {g.black_player, g.white_player, g.event, g.site, g.opening} :
    IsSome(f) => ~HasNewline(f.val)

NewlineCount(text) == Cardinality(NewlineAt(text))

C10_LineStructure ==
  (kind = "GameRecord" /\ done /\ StringFieldsPlain(input)) =>
    /\ Len(output) >= 5
    /\ SubSeq(output, 1, 5) = <<"V", "2", ".", "2", NL>>
    /\ output[Len(output)] = NL
    /\ \A i \in 1..(Len(output) - 1) : ~(output[i] = NL /\ output[i + 1] = NL)
    /\ NewlineCount(output) =
         1 + Cardinality({k \in 1..8 : IsSome(OptionalFields(input)[k])})
           + (IF IsSome(input.start_pos.bulk) THEN 9 ELSE 1)
           + Len(input.start_pos.add_pieces) + 1 + Len(input.moves)
           + Cardinality({k \in 1..Len(input.moves) :
                           IsSome(input.moves[k].time)})

C10_Witness ==
  /\ kind = "GameRecord" /\ done /\ StringFieldsPlain(input)
  /\ IsSome(input.start_pos.bulk)
  /\ IsSome(input.event) /\ ~IsSome(input.site) /\ ~IsSome(input.start_time)
  /\ Len(input.moves) = 2
  /\ IsSome(input.moves[1].time) /\ ~IsSome(input.moves[2].time)
  /\ NewlineCount(output) = 17

(***************************************************************************)
(* C6: a Position with no bulk grid renders as PI followed on the same     *)
(* line by <square><piece_type> for each entry of drop_pieces in order,    *)
(* then one line P<color><square><piece_type> for each entry of add_pieces *)
(* in order, then a line holding only the side_to_move token.  The default *)
(* Position renders as PI, newline, +, newline.                            *)
(***************************************************************************)
DropToken(d) == SquareToken(d[1]) \o PieceCode(d[2])
AddLine(a) == <<"P">> \o ColorToken(a[1]) \o SquareToken(a[2]) \o PieceCode(a[3])

CellToken(pc) ==
  IF IsSome(pc) THEN ColorToken(pc.val[1]) \o PieceCode(pc.val[2])
  ELSE <<" ", "*", " ">>

StartsWithPI(line) == Len(line) >= 2 /\ line[1] = "P" /\ line[2] = "I"

C8_BulkPosition ==
  (kind = "Position" /\ done /\ IsSome(input.bulk)) =>
    LET grid == input.bulk.val
        lines == Lines(output)
    IN  /\ Terminated(output)
        /\ Len(lines) = 9 + Len(input.add_pieces) + 1
        /\ \A i \in 1..9 :
             lines[i] = <<"P">> \o Numeral(i)
                          \o Flatten([j \in 1..9 |-> CellToken(grid[i][j])])
        /\ \A i \in 1..Len(lines) : ~StartsWithPI(lines[i])
        /\ output = DisplayPosition([input EXCEPT !.drop_pieces = <<>>])
        /\ grid = EmptyBoard =>
             \A i \in 1..9 :
               lines[i] = <<"P">> \o Numeral(i)
                            \o Flatten([j \in 1..9 |-> <<" ", "*", " ">>])

C8_Witness ==
  /\ kind = "Position" /\ done /\ IsSome(input.bulk)
  /\ input.bulk.val = HirateBoard
  /\ Len(input.drop_pieces) = 2
  /\ Lines(output)[2] =
       <<"P", "2", " ", "*", " ", "-", "H", "I", " ", "*", " ", " ", "*", " ",
         " ", "*", " ", " ", "*", " ", " ", "*", " ", "-", "K", "A",
         " ", "*", " ">>

====
